---- MODULE Spec2Model ----
(***************************************************************************)
(* Model of the instrument validator (src/utils/validate_isins.py):       *)
(*   - validate_instrument_key: the two-attempt request loop;             *)
(*   - run_validation: the worker pool, the harvesting loop with its      *)
(*     interrupt handler, the save step and the notification.             *)
(* Two specifications share the module: SpecValidate steps one call of    *)
(* validate_instrument_key request by request; Spec runs run_validation,  *)
(* each worker task executing validate_instrument_key as a whole.         *)
(***************************************************************************)
EXTENDS Integers, Sequences, FiniteSets, TLC

\* ------------------------------------------------------------------ bounds
MaxStocks == 5

\* --------------------------------------------------------------- constants
EXCHANGE == "NSE"
INSTRUMENT_TYPE == "EQ"
MaxAttempts == 2

\* Mutant: a pool one thread wider.
max_workers_plus_one == 4 + 1

max_workers == 4

VARIABLES
    \* ---- one call of validate_instrument_key (SpecValidate)
    vpc,             \* "idle" | "loop" | "returned"
    vkey,            \* the instrument key being validated
    attempt,         \* loop variable of `for attempt in range(2)`
    requests_issued, \* number of requests.get calls made by the call
    outcomes,        \* the remote outcomes seen, in order
    vresult,         \* the value returned ("none" until it returns)
    \* ---- run_validation (Spec)
    pc,              \* position of the coordinating thread
    headers,         \* what get_api_headers returned (TRUE: usable headers)
    stocks,          \* the loaded stock list
    futures,         \* futures_to_stock: task i -> [index, stock, state, key, is_valid]
    handler,         \* the installed SIGINT handler: "original" | "signal_handler"
    interrupted,     \* the shared flag
    exiting,         \* sys.exit(1) was raised by the handler
    current,         \* the future yielded by as_completed (0: none)
    yielded_after_flag, \* history: the flag was already set when `current` was yielded
    skip_logged,     \* "Processing interrupted. Skipping remaining stocks." was logged
    valid_count,
    invalid_count,
    results,         \* [valid |-> Seq, invalid |-> Seq]
    summary,         \* the logged "Processed X of N" pair, or <<>>
    csv_file,        \* the valid-list file: [exists, rows]
    save_outcome,    \* what the save step did to the file ("none": not reached)
    notified,        \* "no" | "sent" | "skipped"
    exit_status,     \* process exit status once terminated by sys.exit, else -1
    logged,          \* the per-stock result lines logged so far (as a set)
    \* ---- send_stocklist_to_discord, message by message (SpecNotify)
    embeds_to_send,  \* the embeds built: summary first, then the invalid-list parts
    posted,          \* the webhook POSTs attempted so far, in order
    \* ---- the report publisher, src/report_host.py (SpecPublish)
    ppc,             \* position of publish_both_reports
    report_dir,      \* the reports folder: its file names in listing order
    docs,            \* the docs folder: file name -> content
    to_copy,         \* the rest of the *.html glob of the reports folder to be synced
    copy_log,        \* the copies attempted: [name, outcome], in order
    seen,            \* role -> the files its glob returned, in scan order
    daily,           \* role -> daily_success / daily_failure: date token -> file name
    links,           \* role -> success_links_html / failure_links_html: the <li> entries
    git_log,         \* the git commands run: [command, ok], in order
    publisher_log    \* the warning and error events the publisher logged, in order

vvars == <<vpc, vkey, attempt, requests_issued, outcomes, vresult>>
rvars == <<pc, headers, stocks, futures, handler, interrupted, exiting, current,
           yielded_after_flag, skip_logged, valid_count, invalid_count, results, summary,
           csv_file, save_outcome, notified, exit_status, logged>>
nvars == <<embeds_to_send, posted>>
pvars == <<ppc, report_dir, docs, to_copy, copy_log, seen, daily, links, git_log,
           publisher_log>>
vars == <<vvars, rvars, nvars, pvars>>

\* ------------------------------------------------------- remote outcomes
\* A JSON error list as the API returns it under 'errors'.
ErrorLists == { <<>>, <<[has_message |-> TRUE]>>, <<[has_message |-> FALSE]>> }

\* Response bodies: not JSON, a JSON array, or a JSON object with an
\* optional 'status' and an optional 'errors' list.
Bodies ==
    { [json |-> "none",   status |-> "absent", has_errors |-> FALSE, errors |-> <<>>],
      [json |-> "array",  status |-> "absent", has_errors |-> FALSE, errors |-> <<>>] }
    \cup
    [json : {"object"}, status : {"success", "error", "absent"},
     has_errors : {FALSE}, errors : {<<>>}]
    \cup
    [json : {"object"}, status : {"absent"},
     has_errors : {TRUE}, errors : ErrorLists]

NoBody == [json |-> "none", status |-> "absent", has_errors |-> FALSE, errors |-> <<>>]

\* What one requests.get can produce: a response with a status code and a
\* body, a requests exception (timeout, connection error), or another exception.
\* A 200 carries any body without 'errors'; a 400 carries text or a JSON
\* object whose 'errors' list is missing, empty or not empty.
Outcomes ==
    [kind : {"response"}, status_code : {200}, body : {b \in Bodies : ~b.has_errors}]
    \cup [kind : {"response"}, status_code : {400}, body : {b \in Bodies : b.status = "absent" /\ b.json # "array"}]
    \cup [kind : {"response"}, status_code : {404, 429, 500}, body : {NoBody}]
    \cup [kind : {"request_exception", "exception"}, status_code : {0}, body : {NoBody}]

\* ------------------------------------------------- validate_instrument_key
\* response.json() raises on a body that is not JSON.
JsonDecodeError(body) == body.json = "none"

\* data.get(...) raises AttributeError when the decoded JSON is not an object.
AttributeError(body) == body.json = "array"

\* error_data.get('errors', [{}])[0]: the default [{}] is used only
\* when the key is absent; [0] of an empty list raises IndexError.
ErrorsOrDefault(body) ==
    IF body.has_errors THEN body.errors ELSE <<[has_message |-> FALSE]>>

IndexError(body) == Len(ErrorsOrDefault(body)) = 0

\* Mutant: the retry is dropped.
NeverRetry(att) == "False"

\* The shared tail of every retryable branch:
\*   if attempt == 0: sleep; continue
\*   return False
RetryOnFirstAttempt(att) == IF att = 0 THEN "continue" ELSE "False"

\* The 400 branch: the inner try catches json.JSONDecodeError only, any other
\* exception of the reason lookup reaches the outer `except Exception`.
BadRequestBranch(att, body) ==
    IF JsonDecodeError(body) THEN "False"
    ELSE IF AttributeError(body) \/ IndexError(body) THEN RetryOnFirstAttempt(att)
    ELSE "False"

\* The 200 branch.
OkBranch(att, body) ==
    IF JsonDecodeError(body) \/ AttributeError(body) THEN RetryOnFirstAttempt(att)
    ELSE IF body.status = "success" THEN "True"
    ELSE RetryOnFirstAttempt(att)

\* One iteration of `for attempt in range(2)` on remote outcome o:
\* "True" / "False" (the value returned) or "continue".
LoopBody(att, o) ==
    IF o.kind # "response" THEN RetryOnFirstAttempt(att)
    ELSE IF o.status_code = 200 THEN OkBranch(att, o.body)
    ELSE IF o.status_code = 429 THEN RetryOnFirstAttempt(att)
    ELSE IF o.status_code = 404 THEN "False"
    ELSE IF o.status_code = 400 THEN BadRequestBranch(att, o.body)
    ELSE RetryOnFirstAttempt(att)

\* The whole call on the sequence of remote outcomes it would meet:
\* the value returned and the number of requests issued.
RECURSIVE AttemptLoop(_, _)
AttemptLoop(att, outs) ==
    IF att >= MaxAttempts THEN [value |-> FALSE, requests |-> att]
    ELSE LET r == LoopBody(att, outs[att + 1])
         IN  IF r = "continue" THEN AttemptLoop(att + 1, outs)
             ELSE [value |-> (r = "True"), requests |-> att + 1]

validate_instrument_key(outs) == AttemptLoop(0, outs)

\* ------------------------------------------------------------ stock list
StockEntry(i) == [symbol |-> "SYM" \o ToString(i), isin |-> "INE00" \o ToString(i)]

\* load_stock_list: the first n entries of the list file.
load_stock_list(n) == [i \in 1..n |-> StockEntry(i)]

\* f"{EXCHANGE}_{INSTRUMENT_TYPE}|{isin}"
instrument_key(isin) == EXCHANGE \o "_" \o INSTRUMENT_TYPE \o "|" \o isin

\* ---------------------------------------- SpecValidate: one call, stepwise
VInit ==
    /\ vpc = "loop"
    /\ vkey \in {instrument_key(StockEntry(i).isin) : i \in 1..2}
    /\ attempt = 0
    /\ requests_issued = 0
    /\ outcomes = <<>>
    /\ vresult = "none"

\* One pass through the loop body: a request, then return or continue.
VAttempt ==
    /\ vpc = "loop"
    /\ \E o \in Outcomes :
         LET r == LoopBody(attempt, o)
             exhausted == r = "continue" /\ attempt + 1 >= MaxAttempts
         IN  /\ requests_issued' = requests_issued + 1
             /\ outcomes' = Append(outcomes, o)
             /\ attempt' = IF r = "continue" THEN attempt + 1 ELSE attempt
             /\ vresult' = IF r = "continue"
                              THEN (IF exhausted THEN "False" ELSE "none")
                              ELSE r
             /\ vpc' = IF r = "continue" /\ ~exhausted THEN "loop" ELSE "returned"
    /\ UNCHANGED vkey

VNext == VAttempt /\ UNCHANGED <<rvars, nvars, pvars>>

\* ------------------------------------------------------- run_validation
\* The valid-list file left by a previous run.
StaleFile ==
    [exists |-> TRUE, header |-> TRUE, rows |-> <<[symbol |-> "OLD", isin |-> "INE000"]>>]

NoFile == [exists |-> FALSE, header |-> FALSE, rows |-> <<>>]

\* `if not headers`
HeadersMissing(h) == ~h

\* Mutant: an empty stock list is not detected.
StocksNeverMissing(stks) == FALSE

\* `if not stocks`
StocksMissing(stks) == Len(stks) = 0

\* futures_to_stock = {executor.submit(process_stock, i, stock): (i, stock)
\*                     for i, stock in enumerate(stocks)}
SubmitAll(stks) ==
    [i \in 1..Len(stks) |->
        [index |-> i - 1, stock |-> stks[i], state |-> "queued",
         key |-> "", is_valid |-> FALSE]]

\* The submissions made when the k-th call of executor.submit raises (the
\* pool cannot start the thread it wants for it): the calls before it
\* returned, and the k-th work item is in the queue. A pool with no thread
\* (k = 1) never runs that item and joins at once, so it has no task.
SubmitUntil(stks, k) == IF k = 1 THEN <<>> ELSE SubmitAll(SubSeq(stks, 1, k))

Tasks == DOMAIN futures

Running == {i \in Tasks : futures[i].state = "running"}

\* Mutant: leaving the pool does not wait for its tasks.
PoolNotAwaited == TRUE

\* Every submitted task has run to completion.
AllTasksDone == \A i \in Tasks : futures[i].state \in {"finished", "yielded"}

\* Mutant: every harvested future appends the entry of the first stock.
ResultEntryOfFirst(stock) ==
    [symbol |-> stocks[1].symbol, isin |-> stocks[1].isin,
     instrument_key |-> instrument_key(stocks[1].isin)]

\* The result record appended to results['valid'] / results['invalid'].
ResultEntry(stock) ==
    [symbol |-> stock.symbol, isin |-> stock.isin,
     instrument_key |-> instrument_key(stock.isin)]

\* Mutant: the line is numbered by the position at which it is harvested.
ResultLineByPosition(f) ==
    [number |-> valid_count + invalid_count + 1,
     tag |-> IF f.is_valid THEN "[VALID]" ELSE "[INVALID]",
     symbol |-> f.stock.symbol, isin |-> f.stock.isin]

\* Lines 324 and 332: f"{index+1}. [VALID] {symbol} ({isin})" and its
\* [INVALID] twin, for the future (index, stock, is_valid).
ResultLine(f) ==
    [number |-> f.index + 1,
     tag |-> IF f.is_valid THEN "[VALID]" ELSE "[INVALID]",
     symbol |-> f.stock.symbol, isin |-> f.stock.isin]

\* Mutant: the last valid entry is not written.
CsvRowsOffByOne(valid) ==
    [k \in 1..(Len(valid) - 1) |-> [symbol |-> valid[k].symbol, isin |-> valid[k].isin]]

\* [{'symbol': s['symbol'], 'isin': s['isin']} for s in results['valid']]
CsvRows(valid) == [k \in 1..Len(valid) |-> [symbol |-> valid[k].symbol, isin |-> valid[k].isin]]

RInit ==
    /\ pc = "start"
    /\ headers = FALSE
    /\ stocks = <<>>
    /\ futures = <<>>
    /\ handler = "original"
    /\ interrupted = FALSE
    /\ exiting = FALSE
    /\ current = 0
    /\ yielded_after_flag = FALSE
    /\ skip_logged = FALSE
    /\ valid_count = 0
    /\ invalid_count = 0
    /\ results = [valid |-> <<>>, invalid |-> <<>>]
    /\ summary = <<>>
    /\ csv_file \in {NoFile, StaleFile}
    /\ save_outcome = "none"
    /\ notified = "no"
    /\ exit_status = -1
    /\ logged = {}

\* Lines 255-310: headers, stock list, handler installation, submission.
\* raised_at is the call of executor.submit that raises, 0 when none does:
\* the pool starts a thread for a submission only while it has fewer than
\* max_workers, so only the first max_workers calls can fail that way.
Begin ==
    /\ pc = "start"
    /\ \E h \in BOOLEAN, n \in 0..MaxStocks, raised_at \in 0..max_workers :
         /\ raised_at <= n
         /\ headers' = h
         /\ IF HeadersMissing(h)
              THEN /\ pc' = "aborted"
                   /\ UNCHANGED <<stocks, futures, handler>>
              ELSE /\ stocks' = load_stock_list(n)
                   /\ IF StocksMissing(stocks')
                        THEN /\ pc' = "aborted"
                             /\ UNCHANGED <<futures, handler>>
                        ELSE /\ handler' = "signal_handler"
                             /\ IF raised_at = 0
                                  THEN /\ futures' = SubmitAll(stocks')
                                       /\ pc' = "as_completed"
                                  ELSE /\ futures' = SubmitUntil(stocks', raised_at)
                                       /\ pc' = "unwinding"
    /\ UNCHANGED <<vvars, nvars, pvars, logged, interrupted, exiting, current, yielded_after_flag, skip_logged, valid_count,
                   invalid_count, results, summary, csv_file, save_outcome,
                   notified, exit_status>>

\* A pool thread takes the next queued task (the work queue is FIFO) and
\* process_stock builds its instrument key.
WorkerStart(i) ==
    /\ i \in Tasks
    /\ futures[i].state = "queued"
    /\ \A j \in Tasks : j < i => futures[j].state # "queued"
    /\ Cardinality(Running) < max_workers
    /\ futures' = [futures EXCEPT ![i].state = "running",
                                  ![i].key = instrument_key(futures[i].stock.isin)]
    /\ UNCHANGED <<vvars, nvars, pvars, logged, pc, headers, stocks, handler, interrupted, exiting, current,
                   yielded_after_flag, skip_logged, valid_count, invalid_count, results, summary,
                   csv_file, save_outcome, notified, exit_status>>

\* What validate_instrument_key can return over all remote behaviours.
ValidationValues ==
    {validate_instrument_key(<<o1, o2>>).value : o1 \in Outcomes, o2 \in Outcomes}

\* process_stock returns (index, stock, is_valid): validate_instrument_key
\* ran against whatever the remote answered to its one or two requests.
WorkerFinish(i) ==
    /\ i \in Tasks
    /\ futures[i].state = "running"
    /\ \E v \in ValidationValues :
         futures' = [futures EXCEPT ![i].state = "finished", ![i].is_valid = v]
    /\ UNCHANGED <<vvars, nvars, pvars, logged, pc, headers, stocks, handler, interrupted, exiting, current,
                   yielded_after_flag, skip_logged, valid_count, invalid_count, results, summary,
                   csv_file, save_outcome, notified, exit_status>>

\* Mutant: the flag is not checked.
NeverBreak(flag) == FALSE

\* `if interrupted: break`
BreakOnInterrupt(flag) == flag

\* Lines 313-316: as_completed yields a finished future it has not yielded
\* before, and the loop body checks the flag: break, or go on to fold it.
\* Any finished future may come next: futures that finished before the
\* coordinator asked are yielded in no particular order.
AsCompletedYield(i) ==
    /\ pc = "as_completed"
    /\ i \in Tasks
    /\ futures[i].state = "finished"
    /\ futures' = [futures EXCEPT ![i].state = "yielded"]
    /\ current' = i
    /\ yielded_after_flag' = interrupted
    /\ pc' = IF BreakOnInterrupt(interrupted) THEN "shutdown" ELSE "fold"
    /\ skip_logged' = BreakOnInterrupt(interrupted)
    /\ UNCHANGED <<vvars, nvars, pvars, logged, headers, stocks, handler, interrupted, exiting, valid_count,
                   invalid_count, results, summary, csv_file, save_outcome,
                   notified, exit_status>>

\* as_completed is exhausted: the for loop ends.
AsCompletedEnd ==
    /\ pc = "as_completed"
    /\ \A i \in Tasks : futures[i].state = "yielded"
    /\ pc' = "shutdown"
    /\ UNCHANGED <<vvars, nvars, pvars, logged, headers, stocks, futures, handler, interrupted, exiting, current,
                   yielded_after_flag, skip_logged, valid_count, invalid_count, results, summary,
                   csv_file, save_outcome, notified, exit_status>>

\* Lines 318-338: the coordinating thread folds future.result() into the
\* counters and lists; the loop then asks as_completed for the next future.
\* future.result() cannot raise here (validate_instrument_key catches every
\* Exception and each entry carries symbol and isin), so the handler of
\* lines 339-349 has no step of its own.
Fold ==
    /\ pc = "fold"
    /\ LET f == futures[current]
           entry == ResultEntry(f.stock)
       IN  IF f.is_valid
             THEN /\ valid_count' = valid_count + 1
                  /\ results' = [results EXCEPT !.valid = Append(@, entry)]
                  /\ UNCHANGED invalid_count
             ELSE /\ invalid_count' = invalid_count + 1
                  /\ results' = [results EXCEPT !.invalid = Append(@, entry)]
                  /\ UNCHANGED valid_count
    /\ pc' = "as_completed"
    /\ logged' = logged \cup {ResultLine(futures[current])}
    /\ current' = 0
    /\ yielded_after_flag' = FALSE
    /\ UNCHANGED <<vvars, nvars, pvars, headers, stocks, futures, handler, interrupted, exiting,
                   skip_logged, summary, csv_file, save_outcome, notified, exit_status>>

\* Lines 286-293: SIGINT while run_validation's handler is installed. The
\* first sets the flag; the second raises SystemExit in the coordinating
\* thread, which unwinds into the executor's __exit__ (shutdown(wait=True));
\* a thread that is already unwinding there goes on unwinding.
signal_handler ==
    /\ handler = "signal_handler"
    /\ ~exiting
    /\ IF ~interrupted
         THEN /\ interrupted' = TRUE
              /\ UNCHANGED <<pc, exiting>>
         ELSE /\ exiting' = TRUE
              /\ pc' = IF pc = "unwinding" THEN "unwinding" ELSE "shutdown"
              /\ UNCHANGED interrupted
    /\ UNCHANGED <<vvars, nvars, pvars, logged, headers, stocks, futures, handler, current, yielded_after_flag, skip_logged,
                   valid_count, invalid_count, results, summary, csv_file,
                   save_outcome, notified, exit_status>>

\* Mutant: X counts the futures as_completed yielded, the skipped one included.
SummaryOfYielded(flag) ==
    IF flag
      THEN <<Cardinality({i \in Tasks : futures[i].state = "yielded"}), Len(stocks)>>
      ELSE <<>>

\* The interruption summary of lines 358-360: (X, N).
InterruptionSummary(flag) ==
    IF flag THEN <<valid_count + invalid_count, Len(stocks)>> ELSE <<>>

\* Mutant: the finally clause leaves the run's own handler installed.
handler_left_installed == "signal_handler"

\* original_handler = signal.getsignal(signal.SIGINT), line 295: what the
\* finally clause of lines 354-356 installs again.
original_handler == "original"

\* While signal_handler is installed a SIGINT never raises KeyboardInterrupt,
\* so the clause of lines 351-353 has no step of its own.
\* Leaving `with ThreadPoolExecutor(...)`: __exit__ joins the pool threads,
\* which first drain every queued task; then `finally` restores the handler.
\* A pending SystemExit now ends the process with status 1; otherwise the
\* run goes on to its summary (lines 358-376).
LeavePool ==
    /\ pc = "shutdown"
    /\ AllTasksDone
    /\ handler' = original_handler
    /\ IF exiting
         THEN /\ pc' = "exited"
              /\ exit_status' = 1
              /\ UNCHANGED summary
         ELSE /\ pc' = "save"
              /\ summary' = InterruptionSummary(interrupted)
              /\ UNCHANGED exit_status
    /\ UNCHANGED <<vvars, nvars, pvars, logged, headers, stocks, futures, interrupted, exiting, current,
                   yielded_after_flag, skip_logged, valid_count, invalid_count, results,
                   csv_file, save_outcome, notified>>

\* An exception other than KeyboardInterrupt leaves the with block: __exit__
\* joins the pool threads, `finally` restores the handler, and as no except
\* clause of lines 351-356 matches, the exception leaves run_validation;
\* it is SystemExit(1) when the second interrupt came during the join.
Propagate ==
    /\ pc = "unwinding"
    /\ AllTasksDone
    /\ handler' = original_handler
    /\ pc' = "raised"
    /\ exit_status' = IF exiting THEN 1 ELSE exit_status
    /\ UNCHANGED <<vvars, nvars, pvars, logged, headers, stocks, futures, interrupted, exiting, current,
                   yielded_after_flag, skip_logged, valid_count, invalid_count, results,
                   summary, csv_file, save_outcome, notified>>

\* The files a failed write can leave behind: opened (truncated) and then
\* cut short before the last row.
PartialFiles(rows) ==
    {[exists |-> TRUE, header |-> FALSE, rows |-> <<>>]}
    \cup {[exists |-> TRUE, header |-> TRUE, rows |-> SubSeq(rows, 1, k)] :
            k \in 0..(Len(rows) - 1)}

\* Mutant: the file is written even without a valid entry.
AlwaysWrite(valid) == TRUE

\* `if results['valid']:` of the save step.
HasValid(valid) == Len(valid) > 0

\* Lines 378-402: write the valid list, or remove a stale file. io is what the
\* file system does: "ok", "open_failed" (open/remove raises), "write_failed".
Save ==
    /\ pc = "save"
    /\ \E io \in {"ok", "open_failed", "write_failed"} :
         IF HasValid(results.valid)
           THEN CASE io = "ok" ->
                       /\ csv_file' = [exists |-> TRUE, header |-> TRUE,
                                       rows |-> CsvRows(results.valid)]
                       /\ save_outcome' = "written"
                  [] io = "open_failed" ->
                       /\ UNCHANGED csv_file
                       /\ save_outcome' = "open_failed"
                  [] io = "write_failed" ->
                       /\ csv_file' \in PartialFiles(CsvRows(results.valid))
                       /\ save_outcome' = "write_failed"
           ELSE IF csv_file.exists
                  THEN IF io = "ok"
                         THEN /\ csv_file' = NoFile
                              /\ save_outcome' = "removed"
                         ELSE /\ UNCHANGED csv_file
                              /\ save_outcome' = "remove_failed"
                  ELSE /\ UNCHANGED csv_file
                       /\ save_outcome' = "no_file"
    /\ pc' = "notify"
    /\ UNCHANGED <<vvars, nvars, pvars, logged, headers, stocks, futures, handler, interrupted, exiting, current,
                   yielded_after_flag, skip_logged, valid_count, invalid_count, results, summary,
                   notified, exit_status>>

\* Lines 405-413 and 128-130: the notification, skipped without a webhook URL.
Notify ==
    /\ pc = "notify"
    /\ \E url \in BOOLEAN : notified' = IF url THEN "sent" ELSE "skipped"
    /\ pc' = "done"
    /\ UNCHANGED <<vvars, nvars, pvars, logged, headers, stocks, futures, handler, interrupted, exiting, current,
                   yielded_after_flag, skip_logged, valid_count, invalid_count, results, summary,
                   csv_file, save_outcome, exit_status>>

VIdle ==
    /\ vpc = "idle"
    /\ vkey = ""
    /\ attempt = 0
    /\ requests_issued = 0
    /\ outcomes = <<>>
    /\ vresult = "none"

\* send_stocklist_to_discord has not built or posted anything.
NIdle ==
    /\ embeds_to_send = <<>>
    /\ posted = <<>>

\* The publisher is not running.
PIdle ==
    /\ ppc = "idle"
    /\ report_dir = <<>>
    /\ docs = <<>>
    /\ to_copy = <<>>
    /\ copy_log = <<>>
    /\ seen = <<>>
    /\ daily = <<>>
    /\ links = <<>>
    /\ git_log = <<>>
    /\ publisher_log = <<>>

Init == RInit /\ VIdle /\ NIdle /\ PIdle

Next ==
    \/ Begin
    \/ \E i \in 1..MaxStocks : WorkerStart(i)
    \/ \E i \in 1..MaxStocks : WorkerFinish(i)
    \/ \E i \in 1..MaxStocks : AsCompletedYield(i)
    \/ AsCompletedEnd
    \/ Fold
    \/ signal_handler
    \/ LeavePool
    \/ Propagate
    \/ Save
    \/ Notify

Spec == Init /\ [][Next]_vars

\* One call of validate_instrument_key on its own.
InitValidate == VInit /\ RInit /\ csv_file = NoFile /\ NIdle /\ PIdle

SpecValidate == InitValidate /\ [][VNext]_vars

\* ===================================================================
\* send_stocklist_to_discord: chunking of the invalid list and posting
\* ===================================================================
MaxInvalid == 46
MaxHuge == 20
MaxValid == 1

MAX_CHARS_PER_DESC == 3800
MAX_LINES_PER_DESC == 45
max_embeds_per_message == 10

\* A run of 2^k letters, to give a symbol a chosen width.
RECURSIVE Wide(_)
Wide(k) == IF k = 0 THEN "W" ELSE Wide(k - 1) \o Wide(k - 1)

\* How wide the symbols of the invalid entries are: all short, all so wide
\* that three lines fill a description, all wider than the character budget
\* on their own, or short and wide by turns.
Profiles == {"short", "wide", "huge", "mixed"}

Symbol(i, profile) ==
    "SYM" \o ToString(i) \o
        (CASE profile = "short" -> ""
           [] profile = "wide"  -> Wide(10)
           [] profile = "huge"  -> Wide(12)
           [] profile = "mixed" -> IF i % 2 = 1 THEN Wide(10) ELSE "")

\* The i-th entry of a stock list whose symbols follow the profile.
ProfiledEntry(i, profile) ==
    [symbol |-> Symbol(i, profile), isin |-> "INE00" \o ToString(i)]

\* line = f"{i+1}. {stock['symbol']} ({stock['isin']})\n"   (i counts from 0)
Line(i, stock) ==
    ToString(i + 1) \o ". " \o stock.symbol \o " (" \o stock.isin \o ")\n"

\* A description is kept as the sequence of the lines appended to it:
\* len(description) is the sum of the lines' lengths and, no symbol or ISIN
\* holding a newline, description.count('\n') is the number of lines.
RECURSIVE DescLen(_)
DescLen(desc) == IF desc = <<>> THEN 0 ELSE Len(Head(desc)) + DescLen(Tail(desc))

CountNewlines(desc) == Len(desc)

\* Mutant: the line budget is not looked at.
FlushOnCharsOnly(cur, line) ==
    DescLen(cur) + Len(line) > MAX_CHARS_PER_DESC /\ cur # <<>>

\* The condition of line 202-203 under which the current description is
\* closed before the line is taken.
FlushBefore(cur, line) ==
    \/ (DescLen(cur) + Len(line) > MAX_CHARS_PER_DESC /\ cur # <<>>)
    \/ CountNewlines(cur) >= MAX_LINES_PER_DESC

\* total_parts_invalid = (lines_needed_invalid + MAX_LINES_PER_DESC - 1) // MAX_LINES_PER_DESC
total_parts_invalid(n) == (n + MAX_LINES_PER_DESC - 1) \div MAX_LINES_PER_DESC

\* One embed of the invalid list; the title carries " - Part k/T" only
\* when T > 1 (has_part).
InvalidEmbed(n, part, desc) ==
    [title |-> "Invalid Stock List",
     total |-> n,
     has_part |-> total_parts_invalid(n) > 1,
     part |-> part,
     parts |-> total_parts_invalid(n),
     description |-> desc,
     color |-> "red"]

\* The for loop of lines 200-214 from entry i (counted from 0) on.
RECURSIVE ChunkLoop(_, _, _, _, _)
ChunkLoop(invalid, i, cur, part, embeds) ==
    IF i >= Len(invalid)
      THEN [current_desc_invalid |-> cur, part_num_invalid |-> part, embeds |-> embeds]
      ELSE LET line == Line(i, invalid[i + 1])
           IN  IF FlushBefore(cur, line)
                 THEN ChunkLoop(invalid, i + 1, <<line>>, part + 1,
                                Append(embeds, InvalidEmbed(Len(invalid), part, cur)))
                 ELSE ChunkLoop(invalid, i + 1, Append(cur, line), part, embeds)

\* Mutant: the chunk left when the loop ends is not appended.
InvalidEmbedsWithoutLast(invalid) ==
    IF invalid = <<>> THEN <<>> ELSE ChunkLoop(invalid, 0, <<>>, 1, <<>>).embeds

\* Lines 189-224: the embeds of the invalid list, the last chunk included.
InvalidEmbeds(invalid) ==
    IF invalid = <<>>
      THEN <<>>
      ELSE LET r == ChunkLoop(invalid, 0, <<>>, 1, <<>>)
           IN  IF r.current_desc_invalid # <<>>
                 THEN Append(r.embeds,
                             InvalidEmbed(Len(invalid), r.part_num_invalid,
                                          r.current_desc_invalid))
                 ELSE r.embeds

\* Lines 164-186: the summary embed.
SummaryEmbed(valid, invalid, total_checked) ==
    [title |-> "Stock List Validation Summary",
     checked |-> total_checked,
     color |-> IF valid = <<>> /\ invalid = <<>> THEN "grey"
               ELSE IF invalid # <<>> THEN "red" ELSE "green",
     valid_field |-> Len(valid),
     invalid_field |-> Len(invalid)]

\* Lines 154-224: embeds_to_send as built before sending.
BuildEmbeds(valid, invalid, total_checked) ==
    <<SummaryEmbed(valid, invalid, total_checked)>> \o InvalidEmbeds(invalid)

\* num_messages = (len(embeds_to_send) + max_embeds_per_message - 1) // max_embeds_per_message
num_messages(embeds) ==
    (Len(embeds) + max_embeds_per_message - 1) \div max_embeds_per_message

\* embed_chunk = embeds_to_send[start_index:end_index] of message i (from 0)
embed_chunk(embeds, i) ==
    LET start_index == i * max_embeds_per_message
        end_index == start_index + max_embeds_per_message
    IN  SubSeq(embeds, start_index + 1,
               IF end_index < Len(embeds) THEN end_index ELSE Len(embeds))

\* What requests.post followed by raise_for_status can do.
PostOutcomes == {"ok", "request_exception", "exception"}

\* Lines 405-413, 128-130 and 154-224: the webhook URL is read; without one
\* the notification is skipped, with one the embeds are built.
NotifyStart ==
    /\ pc = "notify"
    /\ \E url \in BOOLEAN :
         IF ~url
           THEN /\ notified' = "skipped"
                /\ pc' = "done"
                /\ UNCHANGED nvars
           ELSE /\ embeds_to_send' = BuildEmbeds(results.valid, results.invalid, Len(stocks))
                /\ posted' = <<>>
                /\ pc' = "sending"
                /\ UNCHANGED notified
    /\ UNCHANGED <<vvars, pvars, logged, headers, stocks, futures, handler, interrupted, exiting,
                   current, yielded_after_flag, skip_logged, valid_count, invalid_count,
                   results, summary, csv_file, save_outcome, exit_status>>

\* Mutant: a failed POST ends the sending loop.
AbortOnFailure(o, last) == IF last \/ o # "ok" THEN "done" ELSE "sending"

\* Where the sending loop stands after a POST: both except clauses fall
\* through, so only the last message ends it.
AfterPost(o, last) == IF last THEN "done" ELSE "sending"

\* Lines 234-249: one turn of the sending loop. Both except clauses log
\* and fall through to the next message; after the last one the function
\* returns.
PostMessage ==
    /\ pc = "sending"
    /\ Len(posted) < num_messages(embeds_to_send)
    /\ \E o \in PostOutcomes :
         /\ posted' = Append(posted, [i |-> Len(posted),
                                      embeds |-> embed_chunk(embeds_to_send, Len(posted)),
                                      outcome |-> o])
         /\ pc' = AfterPost(o, Len(posted) + 1 = num_messages(embeds_to_send))
    /\ notified' = IF pc' = "done" THEN "sent" ELSE notified
    /\ UNCHANGED <<vvars, pvars, logged, embeds_to_send, headers, stocks, futures, handler,
                   interrupted, exiting, current, yielded_after_flag, skip_logged,
                   valid_count, invalid_count, results, summary, csv_file, save_outcome,
                   exit_status>>

\* The longest invalid list tried with a profile.
MaxEntries(profile) == IF profile = "huge" THEN MaxHuge ELSE MaxInvalid

\* The stock list of a run that found nv valid entries and then ni invalid
\* ones whose symbols follow the profile.
ProfiledStocks(nv, ni, profile) ==
    [i \in 1..(nv + ni) |-> IF i <= nv THEN StockEntry(i) ELSE ProfiledEntry(i, profile)]

\* run_validation as it stands when it reaches the save step after an
\* uninterrupted harvest in submission order.
InitNotify ==
    /\ VIdle /\ NIdle /\ PIdle
    /\ \E nv \in 0..MaxValid, profile \in Profiles :
       \E ni \in 0..MaxEntries(profile) :
         /\ nv + ni > 0
         /\ stocks = ProfiledStocks(nv, ni, profile)
         /\ futures = [i \in 1..(nv + ni) |->
                         [index |-> i - 1, stock |-> stocks[i], state |-> "yielded",
                          key |-> instrument_key(stocks[i].isin), is_valid |-> i <= nv]]
         /\ results = [valid |-> [k \in 1..nv |-> ResultEntry(stocks[k])],
                       invalid |-> [k \in 1..ni |-> ResultEntry(stocks[nv + k])]]
         /\ valid_count = nv
         /\ invalid_count = ni
         /\ logged = {ResultLine(futures[i]) : i \in 1..(nv + ni)}
    /\ pc = "save"
    /\ headers = TRUE
    /\ handler = "original"
    /\ interrupted = FALSE
    /\ exiting = FALSE
    /\ current = 0
    /\ yielded_after_flag = FALSE
    /\ skip_logged = FALSE
    /\ summary = <<>>
    /\ csv_file \in {NoFile, StaleFile}
    /\ save_outcome = "none"
    /\ notified = "no"
    /\ exit_status = -1

NextNotify ==
    \/ Save
    \/ NotifyStart
    \/ PostMessage

SpecNotify == InitNotify /\ [][NextNotify]_vars

\* ===================================================================
\* The report publisher (src/report_host.py)
\* ===================================================================
MaxReports == 6
MaxOtherRole == 1
MaxCopyFailures == 1

\* File names are sequences of characters, so that glob patterns and
\* str.split act on them as they do in the program. The characters that
\* occur, in code-point order ('.' < digits < '_' < lower-case letters).
Alphabet ==
    <<".", "0", "1", "2", "3", "4", "5", "6", "7", "8", "9", "_",
      "a", "b", "c", "d", "e", "f", "g", "h", "i", "j", "k", "l", "m",
      "n", "o", "p", "q", "r", "s", "t", "u", "v", "w", "x", "y", "z">>

Ord(c) == CHOOSE i \in 1..Len(Alphabet) : Alphabet[i] = c

Digits == {"0", "1", "2", "3", "4", "5", "6", "7", "8", "9"}

\* Python's order on str: by code point, a proper prefix first.
RECURSIVE StrLess(_, _)
StrLess(a, b) ==
    IF b = <<>> THEN FALSE
    ELSE IF a = <<>> THEN TRUE
    ELSE IF Head(a) = Head(b) THEN StrLess(Tail(a), Tail(b))
    ELSE Ord(Head(a)) < Ord(Head(b))

\* str.split(sep) for a one-character separator.
RECURSIVE SplitFrom(_, _, _, _)
SplitFrom(str, sep, i, start) ==
    IF i > Len(str) THEN <<SubSeq(str, start, Len(str))>>
    ELSE IF str[i] = sep
      THEN <<SubSeq(str, start, i - 1)>> \o SplitFrom(str, sep, i + 1, i + 1)
    ELSE SplitFrom(str, sep, i + 1, start)

Split(str, sep) == SplitFrom(str, sep, 1, 1)

SuccessPrefix == <<"s", "u", "c", "c", "e", "s", "s", "_", "r", "e", "p", "o", "r", "t", "_">>
FailurePrefix == <<"f", "a", "i", "l", "u", "r", "e", "_", "r", "e", "p", "o", "r", "t", "_">>
HtmlSuffix == <<".", "h", "t", "m", "l">>
Wild8 == <<"?", "?", "?", "?", "?", "?", "?", "?">>

\* The glob patterns of lines 85 and 108.
SuccessPattern == SuccessPrefix \o Wild8 \o HtmlSuffix
FailurePattern == FailurePrefix \o Wild8 \o HtmlSuffix

Roles == {"success", "failure"}
Pattern(role) == IF role = "success" THEN SuccessPattern ELSE FailurePattern

\* fnmatch of a name against a pattern whose only wildcard is '?'.
MatchesPattern(name, pattern) ==
    /\ Len(name) = Len(pattern)
    /\ \A i \in 1..Len(name) : pattern[i] = "?" \/ pattern[i] = name[i]

\* fnmatch of a name against "*.html" (glob does not match hidden files).
MatchesHtml(name) ==
    /\ Len(name) >= Len(HtmlSuffix)
    /\ SubSeq(name, Len(name) - Len(HtmlSuffix) + 1, Len(name)) = HtmlSuffix
    /\ name[1] # "."

\* glob.glob over a directory: the matching names in listing order.
GlobHtml(listing) == SelectSeq(listing, MatchesHtml)
GlobSuccess(listing) == SelectSeq(listing, LAMBDA n : MatchesPattern(n, SuccessPattern))
GlobFailure(listing) == SelectSeq(listing, LAMBDA n : MatchesPattern(n, FailurePattern))
GlobRole(listing, role) == IF role = "success" THEN GlobSuccess(listing) ELSE GlobFailure(listing)

\* Whether basename.split('_')[2] raises IndexError.
SplitRaises(basename) == Len(Split(basename, "_")) < 3

\* trading_date = basename.split('_')[2].split('.')[0]
trading_date(basename) == Split(Split(basename, "_")[3], ".")[1]

\* A dict as a function; d[key] = value, replacing what was there.
Put(d, key, value) ==
    [x \in (DOMAIN d) \cup {key} |-> IF x = key THEN value ELSE d[x]]

EmptyDict == <<>>

\* Mutant: the first file scanned for a token is kept.
RECURSIVE ScanFilesFirstWins(_, _)
ScanFilesFirstWins(files, d) ==
    IF files = <<>> THEN d
    ELSE IF SplitRaises(Head(files)) \/ trading_date(Head(files)) \in DOMAIN d
      THEN ScanFilesFirstWins(Tail(files), d)
    ELSE ScanFilesFirstWins(Tail(files), Put(d, trading_date(Head(files)), Head(files)))

\* Lines 86-95 and 109-118: the for loop over the globbed files of one
\* role. A name whose split raises is logged and skipped; otherwise the
\* token's entry is (over)written.
RECURSIVE ScanFiles(_, _)
ScanFiles(files, d) ==
    IF files = <<>> THEN d
    ELSE IF SplitRaises(Head(files)) THEN ScanFiles(Tail(files), d)
    ELSE LET token == trading_date(Head(files))
         IN  ScanFiles(Tail(files), Put(d, token, Head(files)))

\* sorted(keys, reverse=True)
RECURSIVE SortedReverse(_)
SortedReverse(keys) ==
    IF keys = {} THEN <<>>
    ELSE LET top == CHOOSE x \in keys : \A y \in keys \ {x} : StrLess(y, x)
         IN  <<top>> \o SortedReverse(keys \ {top})

\* Mutant: the six latest days are kept.
LatestSix(days) == SubSeq(days, 1, IF Len(days) < 6 THEN Len(days) ELSE 6)

\* The slice [:5]
Latest(days) == SubSeq(days, 1, IF Len(days) < 5 THEN Len(days) ELSE 5)

\* ---------------------------------------------- the text of a link
DigitValue(c) == Ord(c) - 2

RECURSIVE Number(_)
Number(str) ==
    IF str = <<>> THEN 0
    ELSE 10 * Number(SubSeq(str, 1, Len(str) - 1)) + DigitValue(str[Len(str)])

\* The two characters at p are digits that stand for a number of 1..top:
\* the alternatives 1[0-2]|0[1-9] of %m and 3[01]|[12]\d|0[1-9] of %d.
TwoDigits(str, p, top) ==
    /\ p + 1 <= Len(str)
    /\ str[p] \in Digits /\ str[p + 1] \in Digits
    /\ Number(SubSeq(str, p, p + 1)) \in 1..top

\* The alternative [1-9] of %m and %d.
OneDigit(str, p) == p <= Len(str) /\ str[p] \in Digits \ {"0"}

\* How many characters %d takes at p; 0 when it does not match there.
DayWidth(str, p) ==
    IF TwoDigits(str, p, 31) THEN 2 ELSE IF OneDigit(str, p) THEN 1 ELSE 0

\* How many characters %m takes at 5: the first alternative after which
\* %d still matches; 0 when there is none.
MonthWidth(str) ==
    IF TwoDigits(str, 5, 12) /\ DayWidth(str, 7) > 0 THEN 2
    ELSE IF OneDigit(str, 5) /\ DayWidth(str, 6) > 0 THEN 1
    ELSE 0

IsLeap(y) == (y % 4 = 0 /\ y % 100 # 0) \/ y % 400 = 0

DaysInMonth(y, m) ==
    IF m = 2 THEN (IF IsLeap(y) THEN 29 ELSE 28)
    ELSE IF m \in {4, 6, 9, 11} THEN 30 ELSE 31

ValueError == [raised |-> TRUE, year |-> 0, month |-> 0, day |-> 0]

\* datetime.strptime(day, "%Y%m%d"), lines 101 and 124: the token has to
\* begin with four digits, a month and a day of the month, nothing may
\* remain after them, and the day has to exist in the calendar.
strptime(day) ==
    IF Len(day) < 4 \/ \E i \in 1..4 : day[i] \notin Digits THEN ValueError
    ELSE LET mw == MonthWidth(day)
             dw == DayWidth(day, 5 + mw)
             y == Number(SubSeq(day, 1, 4))
             m == Number(SubSeq(day, 5, 4 + mw))
             d == Number(SubSeq(day, 5 + mw, 4 + mw + dw))
         IN  IF mw = 0 \/ 4 + mw + dw # Len(day) THEN ValueError
             ELSE IF y = 0 \/ d > DaysInMonth(y, m) THEN ValueError
             ELSE [raised |-> FALSE, year |-> y, month |-> m, day |-> d]

MonthAbbr ==
    <<"Jan", "Feb", "Mar", "Apr", "May", "Jun", "Jul", "Aug", "Sep", "Oct", "Nov", "Dec">>

\* strftime("%d %b %Y"), lines 102 and 125.
strftime(date) ==
    (IF date.day < 10 THEN "0" ELSE "") \o ToString(date.day) \o " "
      \o MonthAbbr[date.month] \o " " \o ToString(date.year)

\* The token as the str it is.
RECURSIVE Str(_)
Str(chars) == IF chars = <<>> THEN "" ELSE Head(chars) \o Str(Tail(chars))

\* Lines 100-104 and 123-127: the text of a link is the formatted date,
\* and the token itself when strptime raises.
link_text(day) ==
    LET parsed == strptime(day)
    IN  IF parsed.raised THEN Str(day) ELSE strftime(parsed)

\* Lines 96-105 and 119-128: one <li> link per kept day, pointing at the
\* file the dict holds for that day.
LinksOf(d) ==
    LET days == Latest(SortedReverse(DOMAIN d))
    IN  [k \in 1..Len(days) |->
           [href |-> d[days[k]], day |-> days[k], text |-> link_text(days[k])]]

\* ---------------------------------------------- what the publisher logs
\* A logging.warning or logging.error call.
LogEvent(level, event, about) == [level |-> level, event |-> event, about |-> about]

\* Lines 93-95 and 116-118: the warnings of the scan of one role's files,
\* one for every name whose split raises.
RECURSIVE ScanWarnings(_)
ScanWarnings(files) ==
    IF files = <<>> THEN <<>>
    ELSE (IF SplitRaises(Head(files))
            THEN <<LogEvent("warning", "Could not parse trading date from filename",
                            Head(files))>>
            ELSE <<>>) \o ScanWarnings(Tail(files))

\* Lines 86-127: what update_landing_page logs at warning or error level.
\* The except clauses of lines 103-104 and 126-127 set link_text and
\* make no logging call, so the links add nothing.
LandingWarnings(files) == ScanWarnings(files["success"]) \o ScanWarnings(files["failure"])

\* Lines 43-44: what the copy loop logs after a copy.
CopyErrors(name, o) ==
    IF o = "ok" THEN <<>> ELSE <<LogEvent("error", "Error syncing report", name)>>

\* Lines 28-30 and 65-70: what a git command that returned False leaves
\* in the log, first in run_git_command and then in the caller's else.
GitErrors(command, ok) ==
    IF ok THEN <<>>
    ELSE <<LogEvent("error", "Git command failed", command),
           LogEvent("error", "Git " \o command \o " failed for reports.", command)>>

\* Lines 152 and 158: what a section of the page shows.
Section(role, role_links) ==
    IF role_links # <<>>
      THEN [placeholder |-> "", entries |-> role_links]
      ELSE [placeholder |-> IF role = "success" THEN "No Success Reports Available"
                            ELSE "No Failure Reports Available",
            entries |-> <<>>]

\* landing_html
LandingHtml(l) == [r \in Roles |-> Section(r, l[r])]

IndexName == <<"i", "n", "d", "e", "x">> \o HtmlSuffix

\* What shutil.copyfile can do: copy, fail before touching the destination,
\* or fail after it has begun to write the destination.
CopyOutcomes == {"ok", "failed", "partial"}

CopyFailures == Len(SelectSeq(copy_log, LAMBDA c : c.outcome # "ok"))

\* Lines 52-54 and 36-37: publish_both_reports calls sync_reports_to_docs,
\* which globs the reports folder.
PublishStart ==
    /\ ppc = "start"
    /\ to_copy' = GlobHtml(report_dir)
    /\ ppc' = "sync"
    /\ UNCHANGED <<vvars, rvars, nvars, report_dir, docs, copy_log, seen, daily,
                   links, git_log, publisher_log>>

\* Mutant: a failed copy ends the loop.
StopOnFailure(o, rest) == IF o = "ok" THEN rest ELSE <<>>

\* What the copy loop still has to do after a copy: the except clause of
\* lines 43-44 logs and falls through, so the rest whatever the outcome.
RestAfter(o, rest) == rest

\* Lines 37-44: one turn of the copy loop; an exception is logged and the
\* loop goes on.
CopyFile ==
    /\ ppc = "sync"
    /\ to_copy # <<>>
    /\ \E o \in CopyOutcomes :
         /\ o # "ok" => CopyFailures < MaxCopyFailures
         /\ docs' = CASE o = "ok"      -> Put(docs, Head(to_copy), "new")
                      [] o = "failed"  -> docs
                      [] o = "partial" -> Put(docs, Head(to_copy), "partial")
         /\ copy_log' = Append(copy_log, [name |-> Head(to_copy), outcome |-> o])
         /\ to_copy' = RestAfter(o, Tail(to_copy))
         /\ publisher_log' = publisher_log \o CopyErrors(Head(to_copy), o)
    /\ UNCHANGED <<vvars, rvars, nvars, ppc, report_dir, seen, daily, links, git_log>>

\* Lines 72-168: update_landing_page, called when the copy loop is over.
\* It globs the reports folder for each role, builds the links and writes
\* docs/index.html; a failure to write is not caught and leaves
\* publish_both_reports.
update_landing_page ==
    /\ ppc = "sync"
    /\ to_copy = <<>>
    /\ LET files == [r \in Roles |-> GlobRole(report_dir, r)]
           dicts == [r \in Roles |-> ScanFiles(files[r], EmptyDict)]
           links_html == [r \in Roles |-> LinksOf(dicts[r])]
       IN  /\ seen' = files
           /\ daily' = dicts
           /\ links' = links_html
           /\ publisher_log' = publisher_log \o LandingWarnings(files)
           /\ \E written \in BOOLEAN :
                IF written
                  THEN /\ docs' = Put(docs, IndexName, LandingHtml(links_html))
                       /\ ppc' = "add"
                  ELSE /\ UNCHANGED docs
                       /\ ppc' = "raised"
    /\ UNCHANGED <<vvars, rvars, nvars, report_dir, to_copy, copy_log, git_log>>

\* Mutant: the next git command is run whatever the last one returned.
IgnoreFailure(ok, next) == next

\* The nested ifs of lines 62-70: the next command is run only when this
\* one returned True.
NextAfter(ok, next) == IF ok THEN next ELSE "done"

\* run_git_command (lines 19-30) returns True when the command ran and
\* exited with 0, and False on any exception.
GitOutcomes == BOOLEAN

\* Line 62: git add of the docs folder's *.html files; a failure is logged
\* and ends the publish.
GitAdd ==
    /\ ppc = "add"
    /\ \E ok \in GitOutcomes :
         /\ git_log' = Append(git_log, [command |-> "add", ok |-> ok])
         /\ publisher_log' = publisher_log \o GitErrors("add", ok)
         /\ ppc' = NextAfter(ok, "commit")
    /\ UNCHANGED <<vvars, rvars, nvars, report_dir, docs, to_copy, copy_log, seen,
                   daily, links>>

\* Line 63: git commit, run when add succeeded.
GitCommit ==
    /\ ppc = "commit"
    /\ \E ok \in GitOutcomes :
         /\ git_log' = Append(git_log, [command |-> "commit", ok |-> ok])
         /\ publisher_log' = publisher_log \o GitErrors("commit", ok)
         /\ ppc' = NextAfter(ok, "push")
    /\ UNCHANGED <<vvars, rvars, nvars, report_dir, docs, to_copy, copy_log, seen,
                   daily, links>>

\* Line 64: git push, run when commit succeeded.
GitPush ==
    /\ ppc = "push"
    /\ \E ok \in GitOutcomes :
         /\ git_log' = Append(git_log, [command |-> "push", ok |-> ok])
         /\ publisher_log' = publisher_log \o GitErrors("push", ok)
         /\ ppc' = "done"
    /\ UNCHANGED <<vvars, rvars, nvars, report_dir, docs, to_copy, copy_log, seen,
                   daily, links>>

\* ------------------------------------------------ folders tried
Digit(d) == Alphabet[d + 2]

\* The k-th dated report stem: the months alternate and the days are not
\* in order, so that the listing order is not the date order.
DateStem(k) ==
    <<"2", "0", "2", "5", "0", IF k % 2 = 1 THEN "4" ELSE "5", "1", Digit(((k * 3) % 7) + 1)>>

Prefix(role) == IF role = "success" THEN SuccessPrefix ELSE FailurePrefix

ReportName(role, stem) == Prefix(role) \o stem \o HtmlSuffix

DatedReports(role, n) == [k \in 1..n |-> ReportName(role, DateStem(k))]

\* Stems that fill the 8-character date position with something else.
Stem2025_001 == <<"2", "0", "2", "5", "_", "0", "0", "1">>
Stem2025_002 == <<"2", "0", "2", "5", "_", "0", "0", "2">>
StemLetters == <<"a", "b", "c", "d", "e", "f", "g", "h">>
StemDotted == <<"2", "0", "2", "5", ".", "b", "a", "k">>
StemOld == <<"2", "0", "2", "5", "0", "3", "0", "1">>
\* Eight digits that are no date: there is no month 13.
StemUndated == <<"2", "0", "2", "5", "1", "3", "4", "0">>

\* What else the reports folder holds besides the dated reports.
Scenarios == {"none", "pair", "pair_reversed", "letters", "dotted", "undated", "other"}

Extras(role, scenario) ==
    CASE scenario = "none" -> <<>>
      [] scenario = "pair" ->
           <<ReportName(role, Stem2025_001), ReportName(role, Stem2025_002)>>
      [] scenario = "pair_reversed" ->
           <<ReportName(role, Stem2025_002), ReportName(role, Stem2025_001)>>
      [] scenario = "letters" -> <<ReportName(role, StemLetters)>>
      [] scenario = "dotted" -> <<ReportName(role, StemDotted)>>
      [] scenario = "undated" -> <<ReportName(role, StemUndated)>>
      [] scenario = "other" ->
           << <<"n", "o", "t", "e", "s", ".", "t", "x", "t">>,
              <<"s", "u", "m", "m", "a", "r", "y">> \o HtmlSuffix,
              Prefix(role) \o <<"2", "0", "2", "5">> \o HtmlSuffix >>

OtherRole(role) == IF role = "success" THEN "failure" ELSE "success"

\* The docs folder as an earlier publish left it: a copy of a report that
\* is synced again, a report that is no longer in the reports folder, and
\* the landing page.
StaleDocs(role) ==
    Put(Put(Put(EmptyDict, ReportName(role, DateStem(1)), "old"),
            ReportName(role, StemOld), "old"),
        IndexName, "old")

\* The combinations tried: any number of dated reports of both roles on
\* their own, and each kind of extra files next to one dated report or to
\* as many as are allowed; a docs folder left by an earlier publish goes
\* with reports of one role only.
Tried(n, m, scenario, stale) ==
    /\ scenario # "none" => (n \in {1, MaxReports} /\ m = 0)
    /\ stale => m = 0

InitPublish ==
    /\ VIdle /\ NIdle /\ RInit /\ csv_file = NoFile
    /\ \E role \in Roles, n \in 0..MaxReports, m \in 0..MaxOtherRole, scenario \in Scenarios,
          stale \in BOOLEAN :
         /\ Tried(n, m, scenario, stale)
         /\ report_dir = Extras(role, scenario) \o DatedReports(role, n)
                           \o DatedReports(OtherRole(role), m)
         /\ docs = IF stale THEN StaleDocs(role) ELSE EmptyDict
    /\ ppc = "start"
    /\ to_copy = <<>>
    /\ copy_log = <<>>
    /\ seen = [r \in Roles |-> <<>>]
    /\ daily = [r \in Roles |-> EmptyDict]
    /\ links = [r \in Roles |-> <<>>]
    /\ git_log = <<>>
    /\ publisher_log = <<>>

NextPublish ==
    \/ PublishStart
    \/ CopyFile
    \/ update_landing_page
    \/ GitAdd
    \/ GitCommit
    \/ GitPush

SpecPublish == InitPublish /\ [][NextPublish]_vars

\* ===================================================================
\* Claims about validate_instrument_key (checked under SpecValidate)
\* ===================================================================

\* The claim's classes of one remote outcome, read off the response alone.
IsStatus(o, code) == o.kind = "response" /\ o.status_code = code

IsSuccess(o) ==
    IsStatus(o, 200) /\ o.body.json = "object" /\ o.body.status = "success"

IsPermanent(o) == IsStatus(o, 404) \/ IsStatus(o, 400)

\* 200 with another API status (or an unusable body), 429, any other HTTP
\* status, a network/timeout error, an unexpected exception.
IsRetryable(o) == ~IsSuccess(o) /\ ~IsPermanent(o)

\* C1: a first response of 404 or of 400, whatever its body, ends the call
\* after exactly one request with the result False.
C1_PermanentFailureNoRetry ==
    (Len(outcomes) >= 1 /\ IsPermanent(outcomes[1]))
        => (vpc = "returned" /\ requests_issued = 1 /\ vresult = "False")

\* C2: one call issues at most two requests; a retryable first outcome is
\* followed by exactly one more request, and when that one fails too the
\* call returns False after exactly two requests.
C2_AtMostOneRetry ==
    /\ requests_issued <= 2
    /\ requests_issued = Len(outcomes)
    /\ (vpc = "returned" /\ Len(outcomes) >= 1 /\ IsRetryable(outcomes[1]))
          => /\ requests_issued = 2
             /\ ~IsSuccess(outcomes[2]) => vresult = "False"

\* C2 witness: a retryable first outcome, a failed retry, False after two requests.
C2_Witness ==
    /\ vpc = "returned"
    /\ requests_issued = 2
    /\ IsStatus(outcomes[1], 429)
    /\ outcomes[2].kind = "request_exception"
    /\ vresult = "False"

\* C3: the call returns True exactly when the first attempt succeeds, or the
\* first outcome is retryable and the second attempt succeeds.
C3_TrueIffSuccess ==
    vpc = "returned"
        => ( vresult = "True"
             <=> \/ IsSuccess(outcomes[1])
                 \/ /\ IsRetryable(outcomes[1])
                    /\ Len(outcomes) = 2
                    /\ IsSuccess(outcomes[2]) )

\* ===================================================================
\* Claims about run_validation (checked under Spec)
\* ===================================================================

\* The tasks whose validation returned valid.
ValidTasks == {i \in Tasks : futures[i].state # "queued" /\ futures[i].state # "running"
                             /\ futures[i].is_valid}

\* A run that ended without any interrupt.
Uninterrupted == pc = "done" /\ ~interrupted

CountsMatch ==
    /\ valid_count = Cardinality(ValidTasks)
    /\ invalid_count = Len(stocks) - Cardinality(ValidTasks)
    /\ valid_count + invalid_count = Len(stocks)

\* The file is the header followed by one (symbol, isin) row per entry of valid.
FileHolds(valid) ==
    /\ csv_file.exists
    /\ csv_file.header
    /\ Len(csv_file.rows) = Len(valid)
    /\ \A k \in 1..Len(valid) :
          csv_file.rows[k] = [symbol |-> valid[k].symbol, isin |-> valid[k].isin]

\* C4 as claimed: an uninterrupted run ends with matching counters and the
\* valid-list CSV written with exactly valid_count data rows after the header.
C4_CountsAndRowsAlways ==
    Uninterrupted
        => /\ CountsMatch
           /\ save_outcome = "written"
           /\ FileHolds(results.valid)
           /\ Len(csv_file.rows) = valid_count

\* C4 amended: the counters always match; the CSV is written with exactly
\* valid_count data rows when valid_count >= 1 and the write does not
\* fail; with valid_count = 0 no CSV is written at all.
C4_CountsAndRows ==
    Uninterrupted
        => /\ CountsMatch
           /\ valid_count >= 1
                => /\ save_outcome \in {"written", "open_failed", "write_failed"}
                   /\ save_outcome = "written"
                        => FileHolds(results.valid) /\ Len(csv_file.rows) = valid_count
           /\ valid_count = 0
                => /\ save_outcome \in {"removed", "remove_failed", "no_file"}
                   /\ csv_file \in {NoFile, StaleFile}

\* C4 witness: success/success/404 gives 2, 1 and two rows.
C4_Witness ==
    /\ Uninterrupted
    /\ Len(stocks) = 3
    /\ futures[1].is_valid /\ futures[2].is_valid /\ ~futures[3].is_valid
    /\ valid_count = 2 /\ invalid_count = 1
    /\ save_outcome = "written"
    /\ Len(csv_file.rows) = 2

\* C5 as claimed: a logged interruption summary "Processed X of N" has X < N.
C5_SummaryStrictlyLess ==
    summary # <<>> => summary[1] < summary[2]

\* C5 amended: a logged interruption summary has X <= N, and X < N whenever
\* the harvesting loop was left through the interrupt check.
C5_SummaryBounded ==
    summary # <<>>
        => /\ summary[1] <= summary[2]
           /\ summary[2] = Len(stocks)
           /\ skip_logged => summary[1] < summary[2]

\* C5 witness: an interrupt mid-run, some but not all results harvested.
C5_Witness ==
    /\ summary # <<>>
    /\ skip_logged
    /\ summary[1] >= 1
    /\ summary[1] < summary[2]

\* The harvested results: the counters and the two lists.
harvest == <<valid_count, invalid_count, results>>

\* C6: once the flag is set, no future that as_completed yields afterwards
\* is folded into the counters or lists, and a run interrupted once goes on
\* to the partial summary, the CSV step and the notification, never raising.
C6_NoHarvestAfterFlag ==
    /\ [][harvest' # harvest => (pc = "fold" /\ ~yielded_after_flag)]_vars
    /\ []((interrupted /\ ~exiting)
            => /\ pc # "exited" /\ exit_status = -1
               /\ pc \in {"as_completed", "fold", "shutdown"} => ENABLED Next
               /\ pc \in {"save", "notify", "done"} => summary # <<>>
               /\ pc = "done" => (save_outcome # "none" /\ notified # "no"))

\* C6 witness: interrupted once after a first harvest, a later future was
\* yielded and skipped, and the run ended with summary, save step and notification.
C6_Witness ==
    /\ pc = "done"
    /\ interrupted /\ ~exiting
    /\ skip_logged
    /\ valid_count + invalid_count = 1
    /\ Len(stocks) = 3
    /\ summary = <<1, 3>>
    /\ notified = "sent"

\* C7: after the second interrupt no step of the run executes any more (no
\* pending validation is started or completed, the CSV is untouched, nothing
\* is notified) and the process exits with a non-zero status.
C7_SecondInterruptStopsRun ==
    /\ [][exiting => /\ futures' = futures
                     /\ csv_file' = csv_file
                     /\ save_outcome' = save_outcome
                     /\ notified' = notified]_vars
    /\ [](pc = "exited" => exit_status > 0)

\* C8: at most 4 validations are in progress at once; in a run whose
\* calls of executor.submit all returned, every entry of the loaded list
\* is submitted exactly once, and the task of entry i validates the one
\* key 'NSE_EQ|<isin>' built from entry i.
C8_PoolOfFour ==
    /\ Cardinality(Running) <= 4
    /\ pc \notin {"start", "aborted", "unwinding", "raised"}
         => /\ Len(futures) = Len(stocks)
            /\ \A i \in 1..Len(stocks) :
                  /\ futures[i].index = i - 1
                  /\ futures[i].stock = stocks[i]
                  /\ futures[i].state # "queued"
                       => futures[i].key = "NSE_EQ|" \o stocks[i].isin
                  /\ futures[i].state = "queued" => futures[i].key = ""

\* C8 witness: the pool is saturated and a fifth task waits its turn.
C8_Witness ==
    /\ Cardinality(Running) = 4
    /\ \E i \in Tasks : futures[i].state = "queued"
    /\ futures[4].key = "NSE_EQ|INE004"

\* C9 as claimed: after the save step the file holds exactly the harvested
\* valid entries, and does not exist when there is none.
C9_FileMatchesValidAlways ==
    pc \in {"notify", "done"}
        => IF Len(results.valid) > 0 THEN FileHolds(results.valid)
                                     ELSE ~csv_file.exists

\* C9 amended: the same, provided the write or the removal did not fail;
\* a failed removal or a failed open leaves the previous file in place.
C9_FileMatchesValid ==
    pc \in {"notify", "done"}
        => /\ Len(results.valid) > 0
                => /\ save_outcome \in {"written", "open_failed", "write_failed"}
                   /\ save_outcome = "written" => FileHolds(results.valid)
                   /\ save_outcome = "open_failed" => csv_file \in {NoFile, StaleFile}
           /\ Len(results.valid) = 0
                => /\ save_outcome \in {"removed", "remove_failed", "no_file"}
                   /\ save_outcome \in {"removed", "no_file"} => ~csv_file.exists
                   /\ save_outcome = "remove_failed" => csv_file = StaleFile

\* C9 witness: interrupted before any valid result was harvested, the
\* stale file of a previous run has been removed.
C9_Witness ==
    /\ pc = "done"
    /\ interrupted
    /\ \E i \in Tasks : futures[i].is_valid
    /\ results.valid = <<>>
    /\ save_outcome = "removed"
    /\ ~csv_file.exists

\* C10: without headers, or with an empty or unreadable stock list, the run
\* ends at once: no task submitted (so no validation request), no interrupt
\* handler installed, the CSV neither written nor removed, nothing notified.
C10_FailFast ==
    /\ (pc # "start" /\ (~headers \/ Len(stocks) = 0)) => pc = "aborted"
    /\ pc = "aborted"
         => /\ futures = <<>>
            /\ handler = "original"
            /\ ~interrupted
            /\ save_outcome = "none"
            /\ csv_file \in {NoFile, StaleFile}
            /\ notified = "no"
            /\ ~ENABLED Next

\* C10 witness: headers obtained, the stock list empty, a stale file untouched.
C10_Witness ==
    /\ pc = "aborted"
    /\ headers
    /\ stocks = <<>>
    /\ csv_file = StaleFile


\* ===================================================================
\* Claims about send_stocklist_to_discord (checked under SpecNotify)
\* ===================================================================

\* Every line of the invalid list is within the character budget by itself.
EveryLineFits(invalid) ==
    \A k \in 1..Len(invalid) : Len(Line(k - 1, invalid[k])) <= 3800

IsInvalidListEmbed(e) == e.title = "Invalid Stock List"

\* C11: every invalid-list embed built has a description of at most 45
\* lines and, when every single line is within the character budget, of at
\* most 3800 characters; every webhook message posted carries at most 10
\* embeds, the summary embed included.
C11_ChunkBudgets ==
    /\ \A k \in 1..Len(embeds_to_send) :
         IsInvalidListEmbed(embeds_to_send[k]) =>
           /\ CountNewlines(embeds_to_send[k].description) <= 45
           /\ EveryLineFits(results.invalid) =>
                DescLen(embeds_to_send[k].description) <= 3800
    /\ \A m \in 1..Len(posted) : Len(posted[m].embeds) <= 10

\* C11 witness: a list whose lines all fit but fill descriptions to the
\* character budget was cut into more than ten embeds, and the second
\* message has been posted.
C11_Witness ==
    /\ EveryLineFits(results.invalid)
    /\ Len(embeds_to_send) > 10
    /\ Len(posted) >= 2
    /\ \E k \in 1..Len(embeds_to_send) :
         /\ IsInvalidListEmbed(embeds_to_send[k])
         /\ DescLen(embeds_to_send[k].description) > 3000
    /\ Len(posted[1].embeds) = 10


\* ===================================================================
\* Claims about the report publisher (checked under SpecPublish)
\* ===================================================================

\* The sync loop has attempted every globbed file.
SyncOver == to_copy = <<>> /\ Len(copy_log) = Len(GlobHtml(report_dir))

\* The landing page built from the links is in the docs folder.
LandingWritten ==
    /\ IndexName \in DOMAIN docs
    /\ docs[IndexName] = LandingHtml(links)

GitOrder == <<"add", "commit", "push">>

\* C12: publish runs sync, landing page, add, commit, push in that order;
\* a git command is run only when the one before it succeeded, so a failed
\* add, commit or push ends the publish, and no git step undoes the copies
\* or the landing page made before it.
C12_PublishOrder ==
    /\ [](/\ ppc \in {"add", "commit", "push", "done"} => SyncOver /\ LandingWritten
          /\ ppc \in {"start", "sync", "raised"} => git_log = <<>>
          /\ ppc = "sync" => seen = [r \in Roles |-> <<>>]
          /\ Len(git_log) <= 3
          /\ \A k \in 1..Len(git_log) :
               /\ git_log[k].command = GitOrder[k]
               /\ k < Len(git_log) => git_log[k].ok
          /\ (git_log # <<>> /\ ~git_log[Len(git_log)].ok) =>
               ppc = "done" /\ ~ENABLED NextPublish)
    /\ [][git_log' # git_log =>
            /\ docs' = docs
            /\ copy_log' = copy_log
            /\ links' = links]_vars

\* C12 witness: files were copied, the page written, add succeeded and
\* commit failed; the publish is over with the copies still in place.
C12_Witness ==
    /\ ppc = "done"
    /\ Len(git_log) = 2
    /\ git_log[1].ok /\ ~git_log[2].ok
    /\ LandingWritten
    /\ \E k \in 1..Len(copy_log) :
         copy_log[k].outcome = "ok" /\ docs[copy_log[k].name] = "new"


\* update_landing_page has just returned: the page is in the docs folder
\* and publish is about to run git add. The git steps leave the docs folder
\* as it is (C12).
PageBuilt == ppc = "add"

\* The date tokens of the files scanned for a role.
ScannedTokens(role) == [k \in 1..Len(seen[role]) |-> trading_date(seen[role][k])]

TokensOf(role) == LET toks == ScannedTokens(role) IN {toks[k] : k \in DOMAIN toks}

\* The tokens that have fewer than five tokens above them.
FiveLargest(tokens) ==
    {t \in tokens : Cardinality({u \in tokens : StrLess(t, u)}) < 5}

PlaceholderText(role) ==
    IF role = "success" THEN "No Success Reports Available"
    ELSE "No Failure Reports Available"

\* C13: for each role the landing page lists at most 5 entries, in strictly
\* descending order of date token, and their tokens are the 5 largest among
\* the files scanned for the role (all when there are fewer); a role
\* without any shows 'No <role> Reports Available' instead.
C13_LatestFiveDescending ==
    PageBuilt =>
      \A r \in Roles :
        LET section == docs[IndexName][r]
            entries == section.entries
            tokens == TokensOf(r)
        IN  /\ Len(entries) <= 5
            /\ \A k \in 1..(Len(entries) - 1) : StrLess(entries[k + 1].day, entries[k].day)
            /\ {entries[k].day : k \in 1..Len(entries)} = FiveLargest(tokens)
            /\ section.placeholder = IF tokens = {} THEN PlaceholderText(r) ELSE ""

\* C13 witness: six dated success reports were scanned, five are listed,
\* the oldest is not, and the failure section shows its placeholder.
C13_Witness ==
    /\ PageBuilt
    /\ Cardinality(TokensOf("success")) = 6
    /\ Len(docs[IndexName]["success"].entries) = 5
    /\ docs[IndexName]["success"].entries[1].day = DateStem(2)
    /\ \A k \in 1..5 : docs[IndexName]["success"].entries[k].day # DateStem(5)
    /\ docs[IndexName]["failure"].placeholder = "No Failure Reports Available"


\* The 8 characters of a scanned name that stand where the date belongs.
DatePosition(name) == SubSeq(name, Len(SuccessPrefix) + 1, Len(SuccessPrefix) + 8)

IsEightDigits(str) == Len(str) = 8 /\ \A i \in 1..8 : str[i] \in Digits

Listed(role, name) ==
    \E k \in 1..Len(docs[IndexName][role].entries) :
        docs[IndexName][role].entries[k].href = name

\* C14: for a scanned name <role>_report_<8 digits>.html the date token is
\* exactly the 8 digits, and a scanned name whose date position is not 8
\* digits is skipped: it gives no entry on the page, and the page is built.
C14_MalformedSkipped ==
    /\ ppc \in {"add", "commit", "push", "done", "raised"} =>
         \A r \in Roles : \A k \in 1..Len(seen[r]) :
            IsEightDigits(DatePosition(seen[r][k])) =>
               trading_date(seen[r][k]) = DatePosition(seen[r][k])
    /\ PageBuilt =>
         \A r \in Roles : \A k \in 1..Len(seen[r]) :
            ~IsEightDigits(DatePosition(seen[r][k])) => ~Listed(r, seen[r][k])


\* C15: the landing page is derived from the docs folder: once it is built,
\* every link on it names a file that exists in the docs folder, and every
\* report file of the docs folder that matches a role's pattern was scanned
\* as a candidate for that role.
C15_LinksFromDocs ==
    PageBuilt =>
      \A r \in Roles :
        /\ \A k \in 1..Len(docs[IndexName][r].entries) :
             docs[IndexName][r].entries[k].href \in DOMAIN docs
        /\ \A name \in DOMAIN docs :
             MatchesPattern(name, Pattern(r)) =>
               \E k \in 1..Len(seen[r]) : seen[r][k] = name


\* ===================================================================
\* Claims about run_validation's harvest (checked under Spec)
\* ===================================================================

\* The entries of both result lists.
AllEntries == results.valid \o results.invalid

\* C16: at every point valid_count is the length of the valid list,
\* invalid_count the length of the invalid list, their sum is at most the
\* number of stocks and no entry is in the lists twice; the counters and
\* lists change only in a step of the coordinating thread that folds one
\* harvested future, never in a worker's step.
C16_SerializedHarvest ==
    /\ [](/\ valid_count = Len(results.valid)
          /\ invalid_count = Len(results.invalid)
          /\ valid_count + invalid_count <= Len(stocks)
          /\ \A a, b \in 1..Len(AllEntries) : a # b => AllEntries[a] # AllEntries[b])
    /\ [][harvest' # harvest =>
            /\ pc = "fold"
            /\ current \in Tasks
            /\ futures' = futures
            /\ Len(AllEntries') = Len(AllEntries) + 1
            /\ valid_count' + invalid_count' = valid_count + invalid_count + 1]_vars

\* C16 witness: in the harvesting loop, with entries in both lists, fewer
\* harvested than submitted, and a worker still running.
C16_Witness ==
    /\ pc = "as_completed"
    /\ valid_count >= 1
    /\ invalid_count >= 1
    /\ valid_count + invalid_count < Len(stocks)
    /\ Running # {}

\* C17 as claimed: the number in each per-stock result line is the position
\* at which the result was harvested.
C17_NumberIsHarvestPosition ==
    [][\A l \in logged' \ logged : l.number = valid_count + invalid_count + 1]_vars

\* C17: every per-stock result line is logged by the fold of one harvested
\* future, so the lines come out in harvest order, and the number in the
\* line is index+1, the entry's position in the input stock list.
C17_NumberIsInputPosition ==
    [][\A l \in logged' \ logged :
          /\ pc = "fold"
          /\ logged' = logged \cup {l}
          /\ l.number = futures[current].index + 1
          /\ stocks[l.number].symbol = l.symbol
          /\ stocks[l.number].isin = l.isin
          /\ l.tag = IF futures[current].is_valid THEN "[VALID]" ELSE "[INVALID]"]_vars

\* C17 witness: the first result harvested is the third entry's, and its
\* line says 3.
C17_Witness ==
    /\ valid_count + invalid_count = 1
    /\ \E l \in logged : l.number = 3 /\ l.symbol = stocks[3].symbol


\* ===================================================================
\* Claims about the save step and the notification (checked under SpecNotify)
\* ===================================================================

\* C18: whatever the save step did to the valid-list file, run_validation
\* goes on to the notification; and whatever a POST did, the sending loop
\* goes on: the messages are attempted one at a time, in order, each once,
\* and the notification is over only when all of them have been attempted.
C18_SiblingsNotAborted ==
    /\ [][pc = "save" => pc' = "notify"]_vars
    /\ [][pc = "sending" =>
            /\ Len(posted') = Len(posted) + 1
            /\ SubSeq(posted', 1, Len(posted)) = posted]_vars
    /\ [](/\ pc \in {"save", "notify", "sending"} => ENABLED NextNotify
          /\ Len(posted) <= num_messages(embeds_to_send)
          /\ \A k \in 1..Len(posted) :
               /\ posted[k].i = k - 1
               /\ posted[k].embeds = embed_chunk(embeds_to_send, k - 1)
          /\ (pc = "done" /\ notified = "sent") =>
               Len(posted) = num_messages(embeds_to_send)
          /\ pc = "done" => notified \in {"sent", "skipped"})

\* C18 witness: the CSV write failed, the first POST raised a requests
\* exception, the second another exception, and the third message was
\* still sent.
C18_Witness ==
    /\ save_outcome = "write_failed"
    /\ pc = "done"
    /\ notified = "sent"
    /\ Len(posted) = 3
    /\ posted[1].outcome = "request_exception"
    /\ posted[2].outcome = "exception"
    /\ posted[3].outcome = "ok"


\* ===================================================================
\* Claims about sync_reports_to_docs and the scan (checked under SpecPublish)
\* ===================================================================

\* The names of the reports folder that end in ".html", in listing order.
HtmlFiles ==
    SelectSeq(report_dir,
              LAMBDA n : Len(n) >= 5 /\ SubSeq(n, Len(n) - 4, Len(n)) = <<".", "h", "t", "m", "l">>)

\* C19: the sync attempts one copy per *.html file of the reports folder,
\* whatever happened to the copies before it; a copy that succeeds replaces
\* a docs file of the same name; a copy, failed or not, touches no other
\* docs file, and a failed one that never opened its destination changes
\* nothing; after the loop the publish goes on to the landing page and the
\* git steps.
C19_SyncAttemptsAll ==
    /\ [](/\ Len(copy_log) <= Len(HtmlFiles)
          /\ \A k \in 1..Len(copy_log) : copy_log[k].name = HtmlFiles[k]
          /\ ppc \in {"add", "commit", "push", "done", "raised"} =>
               Len(copy_log) = Len(HtmlFiles)
          /\ \A k \in 1..Len(copy_log) :
               copy_log[k].outcome = "ok" =>
                 /\ copy_log[k].name \in DOMAIN docs
                 /\ docs[copy_log[k].name] = "new"
          /\ (ppc = "sync" /\ to_copy # <<>>) => ENABLED CopyFile
          /\ ppc = "add" => ENABLED GitAdd)
    /\ [][(ppc = "sync" /\ to_copy = <<>>) =>
            /\ ppc' \in {"add", "raised"}
            /\ copy_log' = copy_log]_vars
    /\ [][Len(copy_log') > Len(copy_log) =>
            LET c == copy_log'[Len(copy_log')]
            IN  /\ \A name \in (DOMAIN docs) \ {c.name} :
                      name \in DOMAIN docs' /\ docs'[name] = docs[name]
                /\ DOMAIN docs' \subseteq (DOMAIN docs) \cup {c.name}
                /\ c.outcome = "failed" => docs' = docs
                /\ git_log' = git_log /\ links' = links /\ report_dir' = report_dir]_vars

\* C19 witness: the first copy failed, a later copy replaced the old docs
\* file of the same name, and the publish went through to a successful push.
C19_Witness ==
    /\ ppc = "done"
    /\ Len(git_log) = 3 /\ git_log[3].ok
    /\ Len(copy_log) >= 3
    /\ copy_log[1].outcome = "failed"
    /\ \E k \in 2..Len(copy_log) :
         /\ copy_log[k].outcome = "ok"
         /\ copy_log[k].name \in DOMAIN StaleDocs("success")
         /\ docs[copy_log[k].name] = "new"


\* The positions in a role's scan at which a file yields the token.
ScanPositions(role, token) ==
    LET toks == ScannedTokens(role) IN {k \in DOMAIN toks : toks[k] = token}

LastPosition(positions) == CHOOSE k \in positions : \A j \in positions : j <= k

\* C20: on the built page each date token appears at most once per role,
\* and when several scanned files of the role yield the token, the link is
\* to the one scanned last; the earlier ones are not listed.
C20_LastScannedWins ==
    PageBuilt =>
      \A r \in Roles :
        LET entries == docs[IndexName][r].entries
        IN  /\ \A a, b \in 1..Len(entries) : a # b => entries[a].day # entries[b].day
            /\ \A a \in 1..Len(entries) :
                 LET positions == ScanPositions(r, entries[a].day)
                     last == LastPosition(positions)
                 IN  /\ positions # {}
                     /\ entries[a].href = seen[r][last]
                     /\ \A k \in positions \ {last} : ~Listed(r, seen[r][k])

\* C20 witness: two success files with the token "2025" were scanned, the
\* one named ..._002 first; the page links the one named ..._001 and not
\* the other.
C20_Witness ==
    /\ PageBuilt
    /\ Cardinality(ScanPositions("success", <<"2", "0", "2", "5">>)) = 2
    /\ seen["success"][1] = ReportName("success", Stem2025_002)
    /\ Listed("success", ReportName("success", Stem2025_001))
    /\ ~Listed("success", ReportName("success", Stem2025_002))

\* ===================================================================
\* Claims about the chunks of the invalid list (checked under SpecNotify)
\* ===================================================================

\* The lines '1. ...' to 'n. ...' of the invalid entries, in list order.
AllLines == [k \in 1..Len(results.invalid) |-> Line(k - 1, results.invalid[k])]

\* The descriptions of the invalid-list embeds among these, concatenated.
RECURSIVE Descriptions(_)
Descriptions(embeds) ==
    IF embeds = <<>> THEN <<>>
    ELSE (IF IsInvalidListEmbed(Head(embeds)) THEN Head(embeds).description ELSE <<>>)
           \o Descriptions(Tail(embeds))

\* The embeds of the messages posted so far, in the order they were sent.
RECURSIVE SentEmbeds(_)
SentEmbeds(messages) ==
    IF messages = <<>> THEN <<>> ELSE Head(messages).embeds \o SentEmbeds(Tail(messages))

InvalidListEmbeds == SelectSeq(embeds_to_send, IsInvalidListEmbed)

\* C23: once the embeds are built, the descriptions of the invalid-list
\* embeds, concatenated in order, are the lines 1 to n of the invalid
\* entries, each exactly once, and none of these embeds has an empty
\* description; the messages posted carry these embeds in the same order,
\* all of them when the last message has been sent.
C23_ChunksPartitionLines ==
    pc \in {"sending", "done"} /\ notified # "skipped" =>
      /\ Descriptions(embeds_to_send) = AllLines
      /\ \A k \in 1..Len(InvalidListEmbeds) : InvalidListEmbeds[k].description # <<>>
      /\ LET sent == Descriptions(SentEmbeds(posted))
         IN  /\ Len(sent) <= Len(AllLines)
             /\ sent = SubSeq(AllLines, 1, Len(sent))
             /\ pc = "done" => sent = AllLines

\* C23 witness: 46 lines went out in two messages, cut by the character
\* budget into chunks of fewer than 45 lines.
C23_Witness ==
    /\ pc = "done"
    /\ notified = "sent"
    /\ Len(posted) = 2
    /\ Len(AllLines) = 46
    /\ \E k \in 1..(Len(InvalidListEmbeds) - 1) :
         Len(InvalidListEmbeds[k].description) < 45
    /\ Descriptions(SentEmbeds(posted)) = AllLines

\* C24: in the titles 'Part k/T' of the invalid-list embeds k never
\* exceeds T, and the last embed has k = T.
C24_PartWithinTotal ==
    \A k \in 1..Len(InvalidListEmbeds) :
      InvalidListEmbeds[k].has_part =>
        /\ InvalidListEmbeds[k].part <= InvalidListEmbeds[k].parts
        /\ k = Len(InvalidListEmbeds) =>
             InvalidListEmbeds[k].part = InvalidListEmbeds[k].parts

\* ===================================================================
\* Claims about leaving the harvesting section (checked under Spec)
\* ===================================================================

\* The futures whose result was folded into the counters and lists: the
\* yielded ones, but for the one at which the loop broke.
Harvested ==
    {i \in Tasks : futures[i].state = "yielded" /\ ~(skip_logged /\ i = current)}

\* C22: once the loop was left by the interrupt's break, the summary, the
\* CSV step and the notification are reached only when every submitted
\* task has run to completion (none is queued, running or cancelled), and
\* the tasks that were not harvested are in neither list and in neither
\* counter.
C22_DrainedAndDiscarded ==
    (skip_logged /\ pc \in {"save", "notify", "done"}) =>
      /\ Len(futures) = Len(stocks)
      /\ \A i \in Tasks : futures[i].state \in {"finished", "yielded"}
      /\ valid_count + invalid_count = Cardinality(Harvested)
      /\ {AllEntries[k] : k \in 1..Len(AllEntries)}
            = {ResultEntry(futures[i].stock) : i \in Harvested}
      /\ Len(AllEntries) = Cardinality(Harvested)

\* The loop broke while tasks were still to finish: at the summary two or
\* more of them have run to completion without being harvested.
C22_Witness ==
    /\ pc = "save"
    /\ skip_logged
    /\ summary # <<>>
    /\ Cardinality({i \in Tasks : futures[i].state = "finished"}) >= 2
    /\ Cardinality(Harvested) >= 1

\* C25: once the harvesting section is left (towards the summary, by the
\* forced exit, or by an exception that propagates) the SIGINT handler
\* is the one that was installed before the run.
C25_HandlerRestored ==
    pc \in {"save", "notify", "done", "exited", "raised"} => handler = "original"

\* An exception left the section after a first interrupt had been taken
\* by the run's own handler, and the handler is the original one again.
C25_Witness ==
    /\ pc = "raised"
    /\ interrupted
    /\ ~exiting
    /\ Len(futures) >= 2
    /\ handler = "original"

\* ===================================================================
\* Claims about logging (checked under SpecPublish)
\* ===================================================================

\* A warning or an error about this subject is in the publisher's log.
Logged(about) ==
    \E k \in 1..Len(publisher_log) :
      /\ publisher_log[k].about = about
      /\ publisher_log[k].level \in {"warning", "error"}

\* The links whose text is the raw token, strptime having raised.
FallbackLinks(role) ==
    {k \in 1..Len(links[role]) : strptime(links[role][k].day).raised}

\* C21: no failure of the publisher is silent. Every copy that failed,
\* every git command that returned False and every link whose date token
\* could not be parsed for display has left a log event at warning or
\* error level.
C21_NoSilentFailure ==
    /\ \A k \in 1..Len(copy_log) :
          copy_log[k].outcome # "ok" => Logged(copy_log[k].name)
    /\ \A k \in 1..Len(git_log) :
          ~git_log[k].ok => Logged(git_log[k].command)
    /\ \A role \in Roles : \A k \in FallbackLinks(role) :
          Logged(links[role][k].day)

====
